---------------------------- MODULE Spec2Model ----------------------------
(***************************************************************************)
(* TaskFlow API: session / refresh-token lifecycle of AuthService          *)
(* (api/src/modules/auth/auth.service.ts), its controller, the global      *)
(* error handler and the storage-layer uniqueness constraints.             *)
(*                                                                         *)
(* Time is counted in seconds (the resolution of a JWT's iat/exp claims).  *)
(* Every await on the database is a step of its own, so two requests that  *)
(* are in flight at once interleave at exactly the points where the        *)
(* handlers yield.                                                         *)
(***************************************************************************)
EXTENDS Integers, FiniteSets, Sequences, TLC

VARIABLES
    users,             \* rows of table "User"
    tokens,            \* rows of table "RefreshToken"
    now,               \* wall clock, seconds
    refreshExpiresIn,  \* config.jwt.refreshExpiresIn, seconds
    pc,                \* per request slot: where the handler is suspended
    req,               \* per request slot: the request being handled
    last,              \* the request completed last: the operation, the step
                       \* it ended in, whether its findUnique by email found a
                       \* row, the RefreshToken rows matching its token before
                       \* and after, the rows it inserted, the response sent
    loggedOut,         \* history: tokens whose row a logout has removed
    members,           \* rows of table "OrganizationMember"
    orgs,              \* table "Organization": id -> subscriptionStatus
    http,              \* the request passing through a route's middleware chain
    limiter,           \* authLimiter's store, and the requests it has let in
    io,                \* the socket server: sockets, rooms, events delivered
    health,            \* the health routes: dependencies, requests counted, last answer
    board,             \* the Kanban board component of one browser tab
    hooks              \* the realtime hooks mounted in one browser tab

vars == <<users, tokens, now, refreshExpiresIn, pc, req, last, loggedOut, members, orgs, http,
          limiter, io, health, board, hooks>>

\* the session state of AuthService, and the state of the tenant-scoped routes
authVars == <<users, tokens, now, refreshExpiresIn, pc, req, last, loggedOut>>
tenantVars == <<members, orgs, http>>
edgeVars == <<limiter, io>>
uiVars == <<health, board, hooks>>

(***************************************************************************)
(* Bounds of the model                                                     *)
(***************************************************************************)
MaxProcs == 2
MaxTokens == 2
MaxSecs == 1
MaxWeeks == 1
MaxRows == 2
MaxInFlight == 2
MaxHits == 7
MaxProbes == 101
MaxDrags == 2

Procs == 1..MaxProcs

(***************************************************************************)
(* Program constants                                                       *)
(***************************************************************************)
DAY == 86400
StoredTokenDays == 7

Emails == {"john@example.com", "test@example.com"}
Passwords == {"Password123!", "WrongPassword123!"}

\* JWT_REFRESH_EXPIRES_IN: the default '7d', and a setting that outlives the
\* seven days a stored row is given
RefreshLifetimes == {7 * DAY, 30 * DAY}

(***************************************************************************)
(* Token strings.  A token string is represented by the data that          *)
(* determines it: s is the literal text for a string that is not a JWT,    *)
(* "jwt.refresh" / "jwt.access" for a JWT signed with the refresh / access *)
(* secret, whose payload is (userId, iat, exp) and, for an access token,   *)
(* the optional organizationId and role.                                   *)
(***************************************************************************)
Tok(s, userId, iat, exp) ==
    [s |-> s, userId |-> userId, iat |-> iat, exp |-> exp, organizationId |-> "", role |-> ""]

NoToken == Tok("none", 0, 0, 0)
Undefined == Tok("undefined", 0, 0, 0)
Raw(s) == Tok(s, 0, 0, 0)

AccessLifetime == 15 * 60

generateAccessToken(userId, organizationId, role, t) ==
    [Tok("jwt.access", userId, t, t + AccessLifetime)
       EXCEPT !.organizationId = organizationId, !.role = role]

generateRefreshToken(userId, t, lifetime) == Tok("jwt.refresh", userId, t, t + lifetime)

\* "ok", or the name of the error jsonwebtoken throws
verifyAccessToken(tok, t) ==
    IF tok.s # "jwt.access" THEN "JsonWebTokenError"
    ELSE IF t >= tok.exp THEN "TokenExpiredError"
    ELSE "ok"

\* "ok", or the name of the error jsonwebtoken throws
verifyRefreshToken(tok, t) ==
    IF tok.s # "jwt.refresh" THEN "JsonWebTokenError"
    ELSE IF t >= tok.exp THEN "TokenExpiredError"
    ELSE "ok"

hashPassword(p) == <<"bcrypt", p>>

comparePassword(p, h) == h = hashPassword(p)

(***************************************************************************)
(* Errors and responses                                                    *)
(***************************************************************************)
AppError(message, statusCode, code) ==
    [type |-> "AppError", message |-> message, statusCode |-> statusCode, code |-> code]

PrismaError(code) ==
    [type |-> "PrismaClientKnownRequestError", message |-> "", statusCode |-> 0, code |-> code]

JwtError(name) == [type |-> name, message |-> "", statusCode |-> 0, code |-> ""]

NoError == [type |-> "none", message |-> "", statusCode |-> 0, code |-> ""]

Response(status, code, message, access, refresh) ==
    [status |-> status, code |-> code, message |-> message,
     accessToken |-> access, refreshToken |-> refresh]

NoResponse == Response(0, "", "", NoToken, NoToken)

successResponse(statusCode, message, access, refresh) ==
    Response(statusCode, "", message, access, refresh)

errorResponse(message, statusCode, code) ==
    Response(statusCode, code, message, NoToken, NoToken)

errorHandler(err) ==
    IF err.type = "PrismaClientKnownRequestError" /\ err.code = "P2002"
      THEN errorResponse("Unique constraint violation", 409, "DUPLICATE_ENTRY")
    ELSE IF err.type = "PrismaClientKnownRequestError" /\ err.code = "P2025"
      THEN errorResponse("Record not found", 404, "NOT_FOUND")
    ELSE IF err.type = "AppError"
      THEN errorResponse(err.message, err.statusCode, err.code)
    ELSE IF err.type = "JsonWebTokenError"
      THEN errorResponse("Invalid token", 401, "TOKEN_INVALID")
    ELSE IF err.type = "TokenExpiredError"
      THEN errorResponse("Token expired", 401, "TOKEN_EXPIRED")
    ELSE errorResponse("Internal server error", 500, "INTERNAL_ERROR")

(***************************************************************************)
(* Storage layer                                                           *)
(***************************************************************************)
UserRow(id, email, password) == [id |-> id, email |-> email, password |-> password]

TokenRow(token, userId, expiresAt) == [token |-> token, userId |-> userId, expiresAt |-> expiresAt]

\* prisma.user.findUnique({ where: { email } }): the set of matches
userFindUnique(email) == {u \in users : u.email = email}

\* prisma.refreshToken.findUnique({ where: { token } })
refreshTokenFindUnique(token) == {r \in tokens : r.token = token}

\* a table without the unique index
User_email_key_Absent(email) == TRUE

\* unique index "User_email_key"
User_email_key(email) == \A u \in users : u.email # email

\* unique index "RefreshToken_token_key"
RefreshToken_token_key(token) == \A r \in tokens : r.token # token

OrgMemberRow(organizationId, userId, role) ==
    [organizationId |-> organizationId, userId |-> userId, role |-> role]

\* a user loaded without its memberships
memberships_None(userId) == {[organizationId |-> "", role |-> ""]}

\* include: { memberships: { take: 1 } }: the first membership loaded with a
\* user, in no stated order; a record of empty strings when there is none
memberships(userId) ==
    IF \A m \in members : m.userId # userId
      THEN {[organizationId |-> "", role |-> ""]}
      ELSE {[organizationId |-> m.organizationId, role |-> m.role] : m \in {n \in members : n.userId = userId}}

\* the id given to the next User row
NextUserId == Cardinality(users) + 1

\* an expiry counted in hours
addDays_Hours(t, n) == t + n * 60 * 60

\* addDays(new Date(), 7)
addDays(t, n) == t + n * DAY

\* the rows selected by { where: { token } }: an undefined value is no filter
refreshTokenWhere(rows, token) ==
    IF token = Undefined THEN rows ELSE {r \in rows : r.token = token}

\* prisma.refreshToken.deleteMany({ where: { token } }): the rows left
refreshTokenDeleteMany(rows, token) == rows \ refreshTokenWhere(rows, token)

\* prisma.refreshToken.delete instead: "Record to delete does not exist"
refreshTokenDeleteManyError_Delete(count) ==
    IF count = 0 THEN PrismaError("P2025") ELSE NoError

\* what deleteMany throws when `count` rows matched: nothing, also for 0 rows
refreshTokenDeleteManyError(count) == NoError

(***************************************************************************)
(* Tenants, roles and the permission table                                 *)
(***************************************************************************)
Orgs == {"org-1", "org-2"}
UserIds == {1, 2}
OrgRoles == {"OWNER", "ADMIN", "MEMBER", "GUEST"}
SubscriptionStatuses == {"ACTIVE", "PAST_DUE", "CANCELED", "TRIALING"}

AllRoles == {"OWNER", "ADMIN", "MEMBER", "GUEST"}
UpToMember == {"OWNER", "ADMIN", "MEMBER"}
UpToAdmin == {"OWNER", "ADMIN"}
OwnerOnly == {"OWNER"}

permissions ==
    ("organization:read" :> AllRoles) @@ ("organization:update" :> UpToAdmin) @@
    ("organization:delete" :> OwnerOnly) @@ ("organization:billing" :> OwnerOnly) @@
    ("member:invite" :> UpToAdmin) @@ ("member:remove" :> UpToAdmin) @@
    ("member:update" :> UpToAdmin) @@
    ("project:create" :> UpToMember) @@ ("project:read" :> AllRoles) @@
    ("project:update" :> UpToMember) @@ ("project:delete" :> UpToAdmin) @@
    ("task:create" :> UpToMember) @@ ("task:read" :> AllRoles) @@
    ("task:update" :> UpToMember) @@ ("task:delete" :> UpToMember) @@
    ("task:assign" :> UpToMember) @@
    ("comment:create" :> AllRoles) @@ ("comment:update" :> UpToMember) @@
    ("comment:delete" :> UpToMember) @@
    ("team:create" :> UpToAdmin) @@ ("team:read" :> AllRoles) @@
    ("team:update" :> UpToAdmin) @@ ("team:delete" :> UpToAdmin)

Permission == DOMAIN permissions

\* requireOwner = requireRole(['OWNER']), requireAdmin = requireRole(['OWNER', 'ADMIN'])
requireOwner == {"OWNER"}
requireAdmin == {"OWNER", "ADMIN"}

\* Owner > Admin > Member > Guest
Rank == [OWNER |-> 4, ADMIN |-> 3, MEMBER |-> 2, GUEST |-> 1]

(***************************************************************************)
(* A request on a route: express runs the route's middlewares in order,    *)
(* each one either sends a response or calls next; after the last one the  *)
(* route's handler runs.                                                   *)
(***************************************************************************)
Route(path, chain, permission) == [path |-> path, chain |-> chain, permission |-> permission]

NoRoute == Route("", <<>>, "")

\* GET /auth/me, and a tenant-scoped route with a mutating handler
Routes ==
    {Route("/auth/me", <<"authenticate">>, ""),
     Route("PATCH /projects", <<"authenticate", "tenantContext", "requirePermission">>, "project:update")}

\* the Authorization header: none, or a scheme and a token
Header(scheme, token) == [scheme |-> scheme, token |-> token]

NoHeader == Header("", NoToken)

\* what the tables hold for a request's organization and user
Stored(row, role, subscriptionStatus) ==
    [row |-> row, role |-> role, subscriptionStatus |-> subscriptionStatus]

NotStored == Stored(FALSE, "", "")

\* the request and what the middlewares have made of it: `at` is the index
\* of the middleware to run next (one past the chain: the handler; 0: nothing
\* left to run), `ran` names what has run, `nexts` who called next, `sent` the
\* responses sent and `senders` who sent them, `reads` counts the accesses to
\* the store, `stored` is what the tables held when tenantContext ran
HttpRequest(route, authorization, orgId) ==
    [route |-> route, authorization |-> authorization, orgId |-> orgId,
     at |-> 1, next |-> FALSE,
     user |-> NoToken, verified |-> "", organizationId |-> "", orgRole |-> "",
     ran |-> <<>>, nexts |-> <<>>, sent |-> <<>>, senders |-> <<>>, reads |-> 0,
     stored |-> NotStored]

NoHttp == [HttpRequest(NoRoute, NoHeader, "") EXCEPT !.at = 0]

(***************************************************************************)
(* authLimiter: express-rate-limit configured for the authentication       *)
(* routes.  One counter per client address; the model covers one window of *)
(* windowMs.                                                               *)
(***************************************************************************)
AuthMax == 5
skipSuccessfulRequests == TRUE
Clients == {"10.0.0.1", "10.0.0.2"}
Slots == 1..MaxInFlight

\* what the route's validation and controller answer if they run
Outcomes ==
    [login    |-> {200, 401},
     register |-> {201, 409}]

\* a request of a client in flight behind the limiter, or answered
\* (exhausted: the client had AuthMax failed attempts or more on arrival)
Limited(client, op, outcome, exhausted, stage, status, code) ==
    [client |-> client, op |-> op, outcome |-> outcome, exhausted |-> exhausted,
     stage |-> stage, status |-> status, code |-> code]

NoLimited == Limited("", "", 0, FALSE, "idle", 0, "")

LimiterStart ==
    [hits   |-> [c \in Clients |-> 0],
     failed |-> [c \in Clients |-> 0],
     slot   |-> [s \in Slots |-> NoLimited],
     answered |-> NoLimited]

\* client connections the socket server may see
SocketIds == {"socket-1", "socket-2"}

\* Project.organizationId and Task.organizationId of the rows the rooms are
\* named after
Owner == [project |-> [p \in {"p1"} |-> "org-1"], task |-> [t \in {"t1"} |-> "org-1"]]

\* `project:${projectId}`, `task:${taskId}`
RoomOf(kind, id) == <<kind, id>>

\* no socket connected (userId 0), no room, nothing emitted
IoStart == [sockets |-> [s \in SocketIds |-> 0], rooms |-> {}, delivered |-> {}]

(***************************************************************************)
(* The health routes, behind generalLimiter                                *)
(***************************************************************************)
RateLimitMax == 100

\* an answer of a health route
Probe(path, status, success, data) ==
    [path |-> path, status |-> status, success |-> success, data |-> data]

NoProbe == Probe("", 0, FALSE, "")

\* the server has started: database reachable, Redis as configured
HealthStart(redis) ==
    [db |-> "up", redis |-> redis, hits |-> 0, last |-> NoProbe]

\* the board and the hooks before the page is opened
NoDrop == [taskId |-> "", from |-> "", to |-> "", sent |-> <<>>]

NoBoard == [tasks |-> <<>>, activeId |-> "", origin |-> "", drags |-> 0,
            patches |-> <<>>, settled |-> 0, drop |-> NoDrop]

NoHooks == [socket |-> "", mounted |-> {}]

EdgeIdle ==
    /\ limiter = LimiterStart
    /\ io = IoStart
    /\ health = HealthStart("none")
    /\ board = NoBoard
    /\ hooks = NoHooks

(***************************************************************************)
(* Requests                                                                *)
(***************************************************************************)
\* a request being handled: its body, and what the handler has seen and done
\* so far (the user id it resolved and the first membership loaded with the
\* user, whether findUnique by email found a row, how many User /
\* RefreshToken rows it has inserted)
Request(op, email, password, token) ==
    [op |-> op, email |-> email, password |-> password, token |-> token,
     userId |-> 0, organizationId |-> "", role |-> "",
     found |-> FALSE, nUsers |-> 0, nTokens |-> 0]

NoRequest == Request("none", "", "", NoToken)

NoLast ==
    [op |-> "none", at |-> "none", found |-> FALSE, rows |-> 0, left |-> 0,
     nUsers |-> 0, nTokens |-> 0, resp |-> NoResponse,
     token |-> NoToken, kept |-> TRUE, stored |-> {}, members |-> {}]

\* requests that will still insert a refresh-token row
Pending == {q \in Procs : pc[q] \in {"reg_create", "reg_token", "login_token"}}

\* refresh tokens issued so far
Issued == {t \in {r.token : r \in tokens} \cup loggedOut : t.s = "jwt.refresh"}

\* the model stops issuing tokens once MaxTokens were issued or are due
Room == Cardinality(Issued) + Cardinality(Pending) < MaxTokens

\* rows the integration tests put into the tables before the requests are made
FixtureUser == UserRow(1, "test@example.com", hashPassword("Password123!"))

FixtureTokens == {TokenRow(Raw("valid-refresh-token"), 1, addDays(0, 7))}

\* no organization has members, every subscription is ACTIVE
TenantTablesInit ==
    /\ members = {}
    /\ orgs = [o \in Orgs |-> "ACTIVE"]

Init ==
    /\ users = {FixtureUser}
    /\ tokens = FixtureTokens
    /\ now = 0
    /\ refreshExpiresIn \in RefreshLifetimes
    /\ pc = [p \in Procs |-> "idle"]
    /\ req = [p \in Procs |-> NoRequest]
    /\ last = NoLast
    /\ loggedOut = {}
    /\ TenantTablesInit
    /\ http = NoHttp
    /\ EdgeIdle

\* the session state with the default configuration and no request made
AuthIdle ==
    /\ users = {FixtureUser}
    /\ tokens = FixtureTokens
    /\ now = 0
    /\ refreshExpiresIn = 7 * DAY
    /\ pc = [p \in Procs |-> "idle"]
    /\ req = [p \in Procs |-> NoRequest]
    /\ last = NoLast
    /\ loggedOut = {}

\* the handler of slot p, working on request q, ends in step `at` and the
\* response r is sent; users' and tokens' are what this step made of the tables
\* (token: the token the request carried; kept: this step left the tables as
\* they were; stored: the rows holding the refresh token of the response;
\* members: the memberships at that moment)
Finish(p, q, at, r) ==
    /\ pc' = [pc EXCEPT ![p] = "idle"]
    /\ req' = [req EXCEPT ![p] = NoRequest]
    /\ last' = [op |-> q.op, at |-> at, found |-> q.found,
                rows |-> Cardinality(refreshTokenWhere(tokens, q.token)),
                left |-> Cardinality(refreshTokenWhere(tokens', q.token)),
                nUsers |-> q.nUsers + Cardinality(users') - Cardinality(users),
                nTokens |-> q.nTokens + Cardinality(tokens') - Cardinality(tokens),
                resp |-> r,
                token |-> q.token,
                kept |-> users' = users /\ tokens' = tokens /\ members' = members,
                stored |-> {o \in tokens' : o.token = r.refreshToken},
                members |-> members']

(***************************************************************************)
(* AuthService.register, reached through AuthController.register           *)
(***************************************************************************)
UserExists == AppError("User with this email already exists", 409, "USER_EXISTS")

\* register without the early exit
registerExisting_NoCheck(existingUser) == NoError

\* the check after findUnique: the error thrown, or NoError
registerExisting(existingUser) == IF existingUser # {} THEN UserExists ELSE NoError

\* findUnique by email, the early exit, hashPassword
RegisterFind(p, email, password) ==
    /\ pc[p] = "idle"
    /\ UNCHANGED <<users, tokens, now, refreshExpiresIn, loggedOut, tenantVars, edgeVars, uiVars>>
    /\ LET existingUser == userFindUnique(email)
           q == [Request("register", email, password, NoToken) EXCEPT !.found = existingUser # {}]
       IN IF registerExisting(existingUser) # NoError
            THEN Finish(p, q, "find", errorHandler(registerExisting(existingUser)))
            ELSE /\ Room
                 /\ pc' = [pc EXCEPT ![p] = "reg_create"]
                 /\ req' = [req EXCEPT ![p] = q]
                 /\ UNCHANGED last

\* prisma.user.create
RegisterCreate(p) ==
    /\ pc[p] = "reg_create"
    /\ UNCHANGED <<tokens, now, refreshExpiresIn, loggedOut, tenantVars, edgeVars, uiVars>>
    /\ IF User_email_key(req[p].email)
         THEN /\ users' = users \cup {UserRow(NextUserId, req[p].email, hashPassword(req[p].password))}
              /\ req' = [req EXCEPT ![p].userId = NextUserId, ![p].nUsers = @ + 1]
              /\ pc' = [pc EXCEPT ![p] = "reg_token"]
              /\ UNCHANGED last
         ELSE /\ UNCHANGED users
              /\ Finish(p, req[p], "create", errorHandler(PrismaError("P2002")))

\* generateAccessToken, generateRefreshToken, prisma.refreshToken.create
RegisterToken(p) ==
    /\ pc[p] = "reg_token"
    /\ UNCHANGED <<users, now, refreshExpiresIn, loggedOut, tenantVars, edgeVars, uiVars>>
    /\ LET accessToken == generateAccessToken(req[p].userId, "", "", now)
           refreshToken == generateRefreshToken(req[p].userId, now, refreshExpiresIn)
       IN IF RefreshToken_token_key(refreshToken)
            THEN /\ tokens' = tokens \cup {TokenRow(refreshToken, req[p].userId, addDays(now, StoredTokenDays))}
                 /\ Finish(p, req[p], "token", successResponse(201, "", accessToken, refreshToken))
            ELSE /\ UNCHANGED tokens
                 /\ Finish(p, req[p], "token", errorHandler(PrismaError("P2002")))

(***************************************************************************)
(* AuthService.login, reached through AuthController.login                 *)
(***************************************************************************)
NoPassword == <<"null", "">>

InvalidCredentials == AppError("Invalid credentials", 401, "INVALID_CREDENTIALS")

\* a login that tells the caller the email is unknown
LoginNoUser_Leaky == AppError("User not found", 404, "USER_NOT_FOUND")

\* the error of the check after findUnique
LoginNoUser == InvalidCredentials

\* the error of the check after comparePassword
LoginBadPassword == InvalidCredentials

\* findUnique by email, the two credential checks
LoginFind(p, email, password) ==
    /\ pc[p] = "idle"
    /\ UNCHANGED <<users, tokens, now, refreshExpiresIn, loggedOut, tenantVars, edgeVars, uiVars>>
    /\ LET found == userFindUnique(email)
           q == [Request("login", email, password, NoToken) EXCEPT !.found = found # {}]
       IN IF found = {} \/ (\E u \in found : u.password = NoPassword)
            THEN Finish(p, q, "find", errorHandler(LoginNoUser))
            ELSE LET user == CHOOSE u \in found : TRUE
                     qu == [q EXCEPT !.userId = user.id]
                 IN IF ~comparePassword(password, user.password)
                      THEN Finish(p, qu, "find", errorHandler(LoginBadPassword))
                      ELSE /\ Room
                           /\ pc' = [pc EXCEPT ![p] = "login_token"]
                           /\ \E firstOrg \in memberships(user.id) :
                                req' = [req EXCEPT ![p] =
                                          [qu EXCEPT !.organizationId = firstOrg.organizationId,
                                                     !.role = firstOrg.role]]
                           /\ UNCHANGED last

\* generateAccessToken, generateRefreshToken, prisma.refreshToken.create
LoginToken(p) ==
    /\ pc[p] = "login_token"
    /\ UNCHANGED <<users, now, refreshExpiresIn, loggedOut, tenantVars, edgeVars, uiVars>>
    /\ LET accessToken == generateAccessToken(req[p].userId, req[p].organizationId, req[p].role, now)
           refreshToken == generateRefreshToken(req[p].userId, now, refreshExpiresIn)
       IN IF RefreshToken_token_key(refreshToken)
            THEN /\ tokens' = tokens \cup {TokenRow(refreshToken, req[p].userId, addDays(now, StoredTokenDays))}
                 /\ Finish(p, req[p], "token", successResponse(200, "", accessToken, refreshToken))
            ELSE /\ UNCHANGED tokens
                 /\ Finish(p, req[p], "token", errorHandler(PrismaError("P2002")))

(***************************************************************************)
(* AuthService.refreshAccessToken, reached through AuthController.refresh  *)
(***************************************************************************)
TokenInvalid == AppError("Invalid or expired refresh token", 401, "TOKEN_INVALID")

\* the body of the try block: the error it throws, or NoError
refreshTry(refreshToken) ==
    IF verifyRefreshToken(refreshToken, now) # "ok"
      THEN JwtError(verifyRefreshToken(refreshToken, now))
    ELSE IF refreshTokenFindUnique(refreshToken) = {}
              \/ (\E r \in refreshTokenFindUnique(refreshToken) : r.expiresAt < now)
      THEN TokenInvalid
    ELSE NoError

\* the catch block: whatever was thrown is replaced
refreshCatch(error) == TokenInvalid

\* a refresh that hands back a token issued anew
refreshReturned_Reissued(refreshToken) ==
    generateRefreshToken(refreshToken.userId, now + 1, refreshExpiresIn)

\* the refresh token handed back on success
refreshReturned(refreshToken) == refreshToken

Refresh(p, refreshToken) ==
    /\ pc[p] = "idle"
    /\ UNCHANGED <<users, tokens, now, refreshExpiresIn, loggedOut, tenantVars, edgeVars, uiVars>>
    /\ LET q == Request("refresh", "", "", refreshToken)
       IN IF refreshTry(refreshToken) # NoError
            THEN Finish(p, q, "find", errorHandler(refreshCatch(refreshTry(refreshToken))))
            ELSE LET storedToken == CHOOSE r \in refreshTokenFindUnique(refreshToken) : TRUE
                 IN \E firstOrg \in memberships(storedToken.userId) :
                      Finish(p, q, "find",
                             successResponse(200, "",
                                             generateAccessToken(storedToken.userId, firstOrg.organizationId,
                                                                 firstOrg.role, now),
                                             refreshReturned(refreshToken)))

(***************************************************************************)
(* AuthService.logout, reached through AuthController.logout               *)
(***************************************************************************)
Logout(p, refreshToken) ==
    /\ pc[p] = "idle"
    /\ UNCHANGED <<users, now, refreshExpiresIn, tenantVars, edgeVars, uiVars>>
    /\ LET q == Request("logout", "", "", refreshToken)
           error == refreshTokenDeleteManyError(Cardinality(refreshTokenWhere(tokens, refreshToken)))
       IN IF error # NoError
            THEN /\ UNCHANGED tokens
                 /\ Finish(p, q, "delete", errorHandler(error))
            ELSE /\ tokens' = refreshTokenDeleteMany(tokens, refreshToken)
                 /\ Finish(p, q, "delete",
                           successResponse(200, "Logged out successfully", NoToken, NoToken))
    /\ loggedOut' = loggedOut \cup {r.token : r \in tokens \ tokens'}

(***************************************************************************)
(* The middlewares (auth, tenant, permission) and the handlers             *)
(***************************************************************************)
\* the middleware or handler at position h.at of the route
Stage(h) ==
    IF h.at > Len(h.route.chain) THEN "handler" ELSE h.route.chain[h.at]

\* res.status(...).json(...)
Send(h, r) == [h EXCEPT !.sent = Append(@, r), !.senders = Append(@, Stage(h))]

\* authenticate that lets the request pass without a verified token
authenticateNoHeader_Pass(h) == [h EXCEPT !.next = TRUE]

\* authenticate, without a usable Authorization header
authenticateNoHeader(h) ==
    Send(h, errorResponse("No authorization token provided", 401, "UNAUTHORIZED"))

authenticate(h) ==
    IF h.authorization.scheme # "Bearer"
      THEN authenticateNoHeader(h)
      ELSE LET token == h.authorization.token
               v == verifyAccessToken(token, now)
           IN IF v = "ok"
                THEN [h EXCEPT !.verified = v, !.user = token, !.next = TRUE]
                ELSE [Send(h, errorResponse("Invalid or expired token", 401, "TOKEN_INVALID"))
                        EXCEPT !.verified = v]

\* a lookup by organization alone
memberFindUnique_AnyUser(organizationId, userId) ==
    {m \in members : m.organizationId = organizationId}

\* prisma.organizationMember.findUnique({ where: { organizationId_userId } })
memberFindUnique(organizationId, userId) ==
    {m \in members : m.organizationId = organizationId /\ m.userId = userId}

\* the check of the organization's subscription, left out
subscriptionBlocks_Never(subscriptionStatus) == FALSE

\* the check of the organization's subscription
subscriptionBlocks(subscriptionStatus) == subscriptionStatus # "ACTIVE"

\* a tenantContext that takes the organization and the role from the claims
\* of the access token
tenantContext_TokenRole(h) ==
    IF h.user = NoToken
      THEN Send(h, errorResponse("Authentication required", 401, "UNAUTHORIZED"))
    ELSE IF h.orgId = ""
      THEN Send(h, errorResponse("Organization ID required", 400, "ORG_ID_REQUIRED"))
    ELSE IF h.user.organizationId # h.orgId
      THEN Send(h, errorResponse("Access denied to this organization", 403, "ORG_ACCESS_DENIED"))
    ELSE [h EXCEPT !.organizationId = h.orgId, !.orgRole = h.user.role, !.next = TRUE]

tenantContext(h) ==
    IF h.user = NoToken
      THEN Send(h, errorResponse("Authentication required", 401, "UNAUTHORIZED"))
    ELSE IF h.orgId = ""
      THEN Send(h, errorResponse("Organization ID required", 400, "ORG_ID_REQUIRED"))
    ELSE LET found == memberFindUnique(h.orgId, h.user.userId)
             hr == [h EXCEPT !.reads = @ + 1]
         IN IF found = {}
              THEN Send(hr, errorResponse("Access denied to this organization", 403, "ORG_ACCESS_DENIED"))
              ELSE LET membership == CHOOSE m \in found : TRUE
                   IN IF subscriptionBlocks(orgs[h.orgId])
                        THEN Send(hr, errorResponse("Organization subscription is not active", 403, "ORG_INACTIVE"))
                        ELSE [hr EXCEPT !.organizationId = h.orgId, !.orgRole = membership.role,
                                        !.next = TRUE]

\* a gate with a role hierarchy: whoever is at least MEMBER may do anything
\* that is not reserved, and GUEST whatever MEMBER may
\* an entry of the table that lists ADMIN and leaves OWNER out
allowedRoles_OwnerOmitted(permission) ==
    IF permission = "organization:billing" THEN {"ADMIN"} ELSE permissions[permission]

allowedRoles_Hierarchy(permission) ==
    IF "MEMBER" \in permissions[permission] THEN AllRoles ELSE permissions[permission]

\* permissions[permission]
allowedRoles(permission) == permissions[permission]

\* a denial that does not return after answering
permissionDenied_FallThrough(h) ==
    [Send(h, errorResponse("Insufficient permissions", 403, "PERMISSION_DENIED"))
       EXCEPT !.next = TRUE]

\* the role is not among the allowed ones: answer and return
permissionDenied(h) ==
    Send(h, errorResponse("Insufficient permissions", 403, "PERMISSION_DENIED"))

requirePermission(permission, h) ==
    IF h.orgRole = ""
      THEN Send(h, errorResponse("Organization role not found", 403, "ROLE_MISSING"))
    ELSE IF h.orgRole \notin allowedRoles(permission)
      THEN permissionDenied(h)
    ELSE [h EXCEPT !.next = TRUE]

\* prisma.user.findUnique({ where: { id } })
userFindById(id) == {u \in users : u.id = id}

\* AuthController.getCurrentUser over AuthService.getCurrentUser
getCurrentUser(h) ==
    IF h.user = NoToken
      THEN Send(h, errorHandler([type |-> "Error", message |-> "User not authenticated",
                                 statusCode |-> 0, code |-> ""]))
    ELSE IF userFindById(h.user.userId) = {}
      THEN Send([h EXCEPT !.reads = @ + 1],
                errorHandler(AppError("User not found", 404, "USER_NOT_FOUND")))
    ELSE Send([h EXCEPT !.reads = @ + 1], successResponse(200, "", NoToken, NoToken))

\* the handler of a tenant-scoped route
controller(h) == Send(h, successResponse(200, "", NoToken, NoToken))

\* what the stage makes of the request
Apply(stage, h) ==
    IF stage = "authenticate" THEN authenticate(h)
    ELSE IF stage = "tenantContext" THEN tenantContext(h)
    ELSE IF stage = "requirePermission" THEN requirePermission(h.route.permission, h)
    ELSE IF h.route.path = "/auth/me" THEN getCurrentUser(h)
    ELSE controller(h)

\* express: after next() the following stage is run, otherwise nothing more
Dispatch(stage, h) ==
    IF h.next /\ stage # "handler"
      THEN [h EXCEPT !.at = @ + 1, !.next = FALSE,
                     !.ran = Append(@, stage), !.nexts = Append(@, stage)]
      ELSE [h EXCEPT !.at = 0, !.next = FALSE, !.ran = Append(@, stage)]

\* what a login may have embedded in the access token of user 1: no
\* organization, or a role of OWNER in one
EmbeddedClaims ==
    {[organizationId |-> "", role |-> ""],
     [organizationId |-> "org-1", role |-> "OWNER"],
     [organizationId |-> "org-2", role |-> "OWNER"]}

\* headers a client may send: none, one of another scheme, a token signed by
\* someone else, a token that expired before the clock of the model started,
\* and the valid tokens of the two users
Headers ==
    {NoHeader, Header("Basic", Raw("dGVzdA==")),
     Header("Bearer", Tok("jwt.forged", 1, 0, AccessLifetime)),
     Header("Bearer", generateAccessToken(1, "", "", 0 - AccessLifetime)),
     Header("Bearer", generateAccessToken(2, "", "", 0))}
      \cup {Header("Bearer", generateAccessToken(1, c.organizationId, c.role, 0)) :
              c \in EmbeddedClaims}

\* the organization a request names: none, or the first one
Targets == {"", "org-1"}

\* a request arrives; the previous one has been answered
Arrive(route, authorization, orgId) ==
    /\ http.at = 0
    /\ http' = HttpRequest(route, authorization, orgId)
    /\ UNCHANGED <<authVars, edgeVars, uiVars, members, orgs>>

\* the row of table "OrganizationMember" and the subscription of the
\* organization that the request of user `user` for `orgId` is about
Lookup(orgId, user) ==
    LET rows == {m \in members : m.organizationId = orgId /\ m.userId = user.userId}
    IN IF orgId \notin Orgs THEN NotStored
       ELSE IF rows = {} THEN Stored(FALSE, "", orgs[orgId])
       ELSE Stored(TRUE, (CHOOSE m \in rows : TRUE).role, orgs[orgId])

\* the next middleware, or the handler, of the request in flight runs
Step ==
    /\ http.at > 0
    /\ http' = [Dispatch(Stage(http), Apply(Stage(http), http)) EXCEPT
                  !.stored = IF Stage(http) = "tenantContext"
                               THEN Lookup(http.orgId, http.user) ELSE @]
    /\ UNCHANGED <<authVars, edgeVars, uiVars, members, orgs>>

\* the size of the tenant tables: membership rows, organizations not ACTIVE
TableSize(ms, os) == Cardinality(ms) + Cardinality({o \in Orgs : os[o] # "ACTIVE"})

\* a membership is created or its role changed
MemberPut(organizationId, userId, role) ==
    /\ members' = (members \ memberFindUnique(organizationId, userId))
                    \cup {OrgMemberRow(organizationId, userId, role)}
    /\ members' # members
    /\ TableSize(members', orgs) <= MaxRows
    /\ UNCHANGED <<authVars, edgeVars, uiVars, orgs, http>>

\* a membership is removed
MemberDelete(organizationId, userId) ==
    /\ memberFindUnique(organizationId, userId) # {}
    /\ members' = members \ memberFindUnique(organizationId, userId)
    /\ UNCHANGED <<authVars, edgeVars, uiVars, orgs, http>>

\* the subscription of an organization changes
OrgStatus(organizationId, subscriptionStatus) ==
    /\ orgs[organizationId] # subscriptionStatus
    /\ orgs' = [orgs EXCEPT ![organizationId] = subscriptionStatus]
    /\ TableSize(members, orgs') <= MaxRows
    /\ UNCHANGED <<authVars, edgeVars, uiVars, members, http>>

TenantNext ==
    \/ \E r \in Routes, a \in Headers, o \in Targets : Arrive(r, a, o)
    \/ Step
    \/ \E o \in Orgs, u \in UserIds, r \in OrgRoles : MemberPut(o, u, r)
    \/ \E o \in Orgs, u \in UserIds : MemberDelete(o, u)
    \/ \E o \in Targets \ {""}, st \in SubscriptionStatuses : OrgStatus(o, st)

TenantInit == AuthIdle /\ TenantTablesInit /\ http = NoHttp /\ EdgeIdle

TenantSpec == TenantInit /\ [][TenantNext]_vars

(***************************************************************************)
(* The permission gate on its own: a request that tenantContext has given  *)
(* a role, on a route gated by any permission of the table.                *)
(***************************************************************************)
GatedRequest(permission, orgRole) ==
    [HttpRequest(Route(permission, <<"requirePermission">>, permission), NoHeader, "org-1")
       EXCEPT !.organizationId = "org-1", !.orgRole = orgRole]

PermissionInit ==
    /\ AuthIdle
    /\ TenantTablesInit
    /\ http \in {GatedRequest(permission, orgRole) :
                   permission \in Permission, orgRole \in OrgRoles \cup {""}}
    /\ EdgeIdle

PermissionSpec == PermissionInit /\ [][Step]_vars

\* request slots are interchangeable: a new request takes the lowest free one
(***************************************************************************)
(* The authentication routes behind authLimiter.  A request is counted     *)
(* when it arrives; with skipSuccessfulRequests its count is given back    *)
(* when its response finishes with a status below 400.                     *)
(***************************************************************************)
\* only POST /login mounts the limiter
limited_LoginOnly(op) == op = "login"

\* the routes that mount authLimiter
limited(op) == op \in {"register", "login"}

AuthAttempts == {"register", "login"}

tooMany == [status |-> 429, code |-> "AUTH_RATE_LIMIT"]

LimiterArrive(s, client, op, outcome) ==
    /\ limiter.slot[s].stage = "idle"
    /\ \A o \in 1..(s - 1) : limiter.slot[o].stage # "idle"
    /\ limiter.hits[client] < MaxHits
    /\ limiter.failed[client] < MaxHits
    /\ LET arrived == Limited(client, op, outcome, limiter.failed[client] >= AuthMax,
                              "handler", 0, "")
           totalHits == limiter.hits[client] + 1
       IN  IF ~limited(op)
             THEN limiter' = [limiter EXCEPT !.slot[s] = arrived]
             ELSE IF totalHits > AuthMax
               THEN limiter' = [limiter EXCEPT
                        !.hits[client] = totalHits,
                        !.failed[client] = @ + 1,
                        !.answered = [arrived EXCEPT !.stage = "done",
                                        !.status = tooMany.status, !.code = tooMany.code]]
               ELSE limiter' = [limiter EXCEPT
                        !.hits[client] = totalHits,
                        !.slot[s] = arrived]
    /\ UNCHANGED <<authVars, tenantVars, io, uiVars>>

\* the error code the controller's answer carries
OutcomeCode(status) ==
    CASE status = 401 -> "INVALID_CREDENTIALS"
      [] status = 409 -> "USER_EXISTS"
      [] OTHER -> ""

\* validation and the controller answer; the response finishes
LimiterFinish(s) ==
    /\ limiter.slot[s].stage = "handler"
    /\ LET r == limiter.slot[s]
           giveBack == limited(r.op) /\ skipSuccessfulRequests /\ r.outcome < 400
                         /\ limiter.hits[r.client] > 0
           failure == r.op \in AuthAttempts /\ r.outcome >= 400
       IN  limiter' = [limiter EXCEPT
                !.hits[r.client] = IF giveBack THEN @ - 1 ELSE @,
                !.failed[r.client] = IF failure THEN @ + 1 ELSE @,
                !.slot[s] = NoLimited,
                !.answered = [r EXCEPT !.stage = "done", !.status = r.outcome,
                                !.code = OutcomeCode(r.outcome)]]
    /\ UNCHANGED <<authVars, tenantVars, io, uiVars>>

LimiterNext ==
    \/ \E s \in Slots, client \in Clients, op \in DOMAIN Outcomes :
         \E outcome \in Outcomes[op] : LimiterArrive(s, client, op, outcome)
    \/ \E s \in Slots : LimiterFinish(s)

LimiterSpec == TenantInit /\ [][LimiterNext]_vars

(***************************************************************************)
(* The socket server: connection middleware, room management, broadcasts   *)
(***************************************************************************)
\* whether the user has a membership row in the organization owning the room
IsMember(userId, room) ==
    \E m \in members : m.userId = userId /\ m.organizationId = Owner[room[1]][room[2]]

\* a socket's place in a room (member: IsMember when it joined)
Seat(room, socket, member) == [room |-> room, socket |-> socket, member |-> member]

\* an event handed to a socket (member: IsMember of its user at that moment)
Delivery(socket, room, event) ==
    [socket |-> socket, userId |-> io.sockets[socket], room |-> room, event |-> event,
     member |-> IsMember(io.sockets[socket], room)]

\* io.to(room).emit(event), or socket.to(room).emit(event) which leaves the
\* sending socket out
Emit(seats, room, event, except) ==
    {Delivery(x.socket, room, event) : x \in {y \in seats : y.room = room /\ y.socket # except}}

\* io.use: the handshake token is verified, the socket gets its userId
SocketConnect(socket, token) ==
    /\ io.sockets[socket] = 0
    /\ token # NoToken
    /\ verifyAccessToken(token, now) = "ok"
    /\ io' = [io EXCEPT !.sockets[socket] = token.userId]
    /\ UNCHANGED <<authVars, tenantVars, limiter, uiVars>>

Seated(socket, room) == {x \in io.rooms : x.room = room /\ x.socket = socket}

\* what the handlers of a connected socket make of the server's rooms:
\* socket.join / socket.leave of the room named, and for a project room the
\* broadcast to the others in it
onJoinProject(socket, projectId) ==
    LET room == RoomOf("project", projectId)
        seats == (io.rooms \ Seated(socket, room))
                   \cup {Seat(room, socket, IsMember(io.sockets[socket], room))}
    IN  [io EXCEPT !.rooms = seats,
                   !.delivered = Emit(seats, room, "user:joined", socket)]

onLeaveProject(socket, projectId) ==
    LET room == RoomOf("project", projectId)
        seats == io.rooms \ Seated(socket, room)
    IN  [io EXCEPT !.rooms = seats,
                   !.delivered = Emit(seats, room, "user:left", socket)]

onJoinTask(socket, taskId) ==
    LET room == RoomOf("task", taskId)
    IN  [io EXCEPT !.rooms = (@ \ Seated(socket, room))
                               \cup {Seat(room, socket, IsMember(io.sockets[socket], room))},
                   !.delivered = {}]

onLeaveTask(socket, taskId) ==
    [io EXCEPT !.rooms = @ \ Seated(socket, RoomOf("task", taskId)),
               !.delivered = {}]

\* socket.on(JOIN_PROJECT): joins whatever room is named, tells the others
JoinProject(socket, projectId) ==
    /\ io.sockets[socket] # 0
    /\ io' = onJoinProject(socket, projectId)
    /\ UNCHANGED <<authVars, tenantVars, limiter, uiVars>>

LeaveProject(socket, projectId) ==
    /\ io.sockets[socket] # 0
    /\ io' = onLeaveProject(socket, projectId)
    /\ UNCHANGED <<authVars, tenantVars, limiter, uiVars>>

JoinTask(socket, taskId) ==
    /\ io.sockets[socket] # 0
    /\ io' = onJoinTask(socket, taskId)
    /\ UNCHANGED <<authVars, tenantVars, limiter, uiVars>>

LeaveTask(socket, taskId) ==
    /\ io.sockets[socket] # 0
    /\ Seated(socket, RoomOf("task", taskId)) # {}
    /\ io' = onLeaveTask(socket, taskId)
    /\ UNCHANGED <<authVars, tenantVars, limiter, uiVars>>

\* socket.on(USER_TYPING): relayed to the others in the task room
UserTyping(socket, taskId) ==
    /\ io.sockets[socket] # 0
    /\ io' = [io EXCEPT !.delivered = Emit(io.rooms, RoomOf("task", taskId), "user:typing", socket)]
    /\ io' # io
    /\ UNCHANGED <<authVars, tenantVars, limiter, uiVars>>

\* the connection closes: the socket is out of every room; the handler logs
Disconnect(socket) ==
    /\ io.sockets[socket] # 0
    /\ io' = [io EXCEPT !.sockets[socket] = 0,
                        !.rooms = {x \in @ : x.socket # socket},
                        !.delivered = {}]
    /\ UNCHANGED <<authVars, tenantVars, limiter, uiVars>>

emitToProject(projectId, event) ==
    /\ io' = [io EXCEPT !.delivered = Emit(io.rooms, RoomOf("project", projectId), event, "")]
    /\ io' # io
    /\ UNCHANGED <<authVars, tenantVars, limiter, uiVars>>

emitToTask(taskId, event) ==
    /\ io' = [io EXCEPT !.delivered = Emit(io.rooms, RoomOf("task", taskId), event, "")]
    /\ io' # io
    /\ UNCHANGED <<authVars, tenantVars, limiter, uiVars>>

\* handshake tokens: a forged one, and the access tokens of the two users
Handshakes ==
    {Tok("jwt.forged", 1, 0, AccessLifetime)}
      \cup {generateAccessToken(u, "", "", 0) : u \in UserIds}

SocketNext ==
    \/ \E s \in SocketIds, t \in Handshakes : SocketConnect(s, t)
    \/ \E s \in SocketIds, p \in DOMAIN Owner.project : JoinProject(s, p)
    \/ \E s \in SocketIds, p \in DOMAIN Owner.project : LeaveProject(s, p)
    \/ \E s \in SocketIds, t \in DOMAIN Owner.task : JoinTask(s, t)
    \/ \E s \in SocketIds, t \in DOMAIN Owner.task : LeaveTask(s, t)
    \/ \E s \in SocketIds, t \in DOMAIN Owner.task : UserTyping(s, t)
    \/ \E s \in SocketIds : Disconnect(s)
    \/ \E p \in DOMAIN Owner.project : emitToProject(p, "task:updated")
    \/ \E t \in DOMAIN Owner.task : emitToTask(t, "comment:added")
    \/ \E o \in Orgs, u \in UserIds : MemberPut(o, u, "MEMBER")
    \/ \E o \in Orgs, u \in UserIds : MemberDelete(o, u)

SocketSpec == TenantInit /\ [][SocketNext]_vars

(***************************************************************************)
(* routes/health.routes: GET /health, /health/db, /health/redis            *)
(***************************************************************************)
\* a value passed where a status code is expected
Num(n) == [type |-> "number", n |-> n, text |-> ""]
Str(text) == [type |-> "string", n |-> 0, text |-> text]

\* res.status(statusCode).json(body): writing the head throws for a status
\* that is not a number from 100 to 999
resStatusJson(path, statusCode, success, data) ==
    IF statusCode.type = "number" /\ statusCode.n \in 100..999
      THEN [thrown |-> FALSE, sent |-> Probe(path, statusCode.n, success, data)]
      ELSE [thrown |-> TRUE, sent |-> NoProbe]

\* successResponse(res, data, statusCode) and errorResponse(res, message,
\* statusCode) of utils/response
jsonSuccess(path, data, statusCode) == resStatusJson(path, statusCode, TRUE, data)
jsonError(path, message, statusCode) == resStatusJson(path, Num(statusCode), FALSE, message)

\* try { return successResponse(...) } catch { return errorResponse(...) }
TryCatch(attempt, handler) == IF attempt.thrown THEN handler.sent ELSE attempt.sent

\* router.get('/')
healthBasic ==
    TryCatch(jsonSuccess("/health", "healthy", Str("Service is healthy")),
             jsonError("/health", "Health check failed", 503))

\* router.get('/db')
healthDb(db) ==
    IF db = "up"
      THEN TryCatch(jsonSuccess("/health/db", "healthy", Str("Database is healthy")),
                    jsonError("/health/db", "Database health check failed", 503))
      ELSE jsonError("/health/db", "Database health check failed", 503).sent

\* router.get('/redis')
healthRedis(redis) ==
    IF redis = "none"
      THEN jsonError("/health/redis", "Redis not configured", 503).sent
    ELSE IF redis = "up"
      THEN TryCatch(jsonSuccess("/health/redis", "healthy", Str("Redis is healthy")),
                    jsonError("/health/redis", "Redis health check failed", 503))
      ELSE jsonError("/health/redis", "Redis health check failed", 503).sent

HealthPaths == {"/health", "/health/db", "/health/redis"}

\* a request to a health route: generalLimiter, then the route
HealthGet(path) ==
    /\ health.hits < MaxProbes
    /\ LET totalHits == health.hits + 1
           answer == IF totalHits > RateLimitMax
                       THEN Probe(path, 429, FALSE, "Too many requests, please try again later")
                     ELSE IF path = "/health" THEN healthBasic
                     ELSE IF path = "/health/db" THEN healthDb(health.db)
                     ELSE healthRedis(health.redis)
       IN  health' = [health EXCEPT !.hits = totalHits, !.last = answer]
    /\ UNCHANGED <<authVars, tenantVars, edgeVars, board, hooks>>

\* the database or Redis becomes reachable or unreachable
DependencyChanges(name, state) ==
    /\ health[name] \notin {"none", state}
    /\ health' = [health EXCEPT ![name] = state]
    /\ UNCHANGED <<authVars, tenantVars, edgeVars, board, hooks>>

HealthInit ==
    /\ AuthIdle
    /\ TenantTablesInit
    /\ http = NoHttp
    /\ limiter = LimiterStart
    /\ io = IoStart
    /\ health \in {HealthStart(redis) : redis \in {"none", "up"}}
    /\ board = NoBoard
    /\ hooks = NoHooks

HealthNext ==
    \/ \E path \in HealthPaths : HealthGet(path)
    \/ \E name \in {"db", "redis"}, state \in {"up", "down"} : DependencyChanges(name, state)

HealthSpec == HealthInit /\ [][HealthNext]_vars

(***************************************************************************)
(* components/board/KanbanBoard: the local task list, the drag in progress *)
(* and the PATCH requests of updateTaskMutation.  `origin` is the status   *)
(* the dragged task had when the drag started, `drop` what the last        *)
(* handleDragEnd with a target made of it, `settled` how many of the       *)
(* requests have been answered.                                            *)
(***************************************************************************)
columns == <<"TODO", "IN_PROGRESS", "IN_REVIEW", "DONE">>

Task(id, status) == [id |-> id, status |-> status]

\* the tasks prop the board is rendered with
initialTasks == <<Task("t1", "TODO"), Task("t2", "IN_PROGRESS")>>

TaskIds == {initialTasks[i].id : i \in DOMAIN initialTasks}

\* event.over: null, a column or a task card
Overs == {""} \cup {columns[i] : i \in DOMAIN columns} \cup TaskIds

BoardStart == [NoBoard EXCEPT !.tasks = initialTasks]

\* tasks.findIndex((t) => t.id === id), from 1; 0 when there is none
findIndex(tasks, id) ==
    IF \E i \in DOMAIN tasks : tasks[i].id = id
      THEN CHOOSE i \in DOMAIN tasks : tasks[i].id = id
      ELSE 0

\* arrayMove of @dnd-kit/sortable: the item at `from` is taken out and put
\* in at `to`
arrayMove(array, from, to) ==
    LET item == array[from]
        rest == SubSeq(array, 1, from - 1) \o SubSeq(array, from + 1, Len(array))
    IN  SubSeq(rest, 1, to - 1) \o <<item>> \o SubSeq(rest, to, Len(rest))

\* overTask?.status || overId
overStatus(tasks, overId) ==
    IF findIndex(tasks, overId) # 0 THEN tasks[findIndex(tasks, overId)].status ELSE overId

\* api.patch(`/tasks/${taskId}`, { status })
Patch(taskId, status) == [taskId |-> taskId, status |-> status]

\* handleDragStart
DragStart(id) ==
    /\ board.activeId = ""
    /\ board.drags < MaxDrags
    /\ board' = [board EXCEPT !.activeId = id, !.drags = @ + 1,
                              !.origin = board.tasks[findIndex(board.tasks, id)].status]
    /\ UNCHANGED <<authVars, tenantVars, edgeVars, health, hooks>>

\* handleDragOver: over a column or a card of another status, the dragged
\* task takes that status in the local list, and the place of the card
\* when it is over one
DragOver(overId) ==
    /\ board.activeId # ""
    /\ LET activeIndex == findIndex(board.tasks, board.activeId)
           overIndex == findIndex(board.tasks, overId)
           status == overStatus(board.tasks, overId)
           updatedTasks == [board.tasks EXCEPT ![activeIndex].status = status]
       IN  board' =
             IF overId = "" \/ activeIndex = 0 \/ board.tasks[activeIndex].status = status
               THEN board
             ELSE IF overIndex # 0
               THEN [board EXCEPT !.tasks = arrayMove(updatedTasks, activeIndex, overIndex)]
             ELSE [board EXCEPT !.tasks = updatedTasks]
    /\ UNCHANGED <<authVars, tenantVars, edgeVars, health, hooks>>

\* activeTask.status !== newStatus
statusDiffers(status, newStatus) == status # newStatus

\* handleDragEnd: the drag is over; with a target whose status differs from
\* the one the task has in the local list, updateTaskMutation.mutate sends
\* the PATCH
DragEnd(overId) ==
    /\ board.activeId # ""
    /\ LET activeIndex == findIndex(board.tasks, board.activeId)
           newStatus == overStatus(board.tasks, overId)
           sent == IF statusDiffers(board.tasks[activeIndex].status, newStatus)
                     THEN <<Patch(board.activeId, newStatus)>>
                     ELSE <<>>
       IN  board' =
             IF overId = "" \/ activeIndex = 0
               THEN [board EXCEPT !.activeId = "", !.origin = ""]
               ELSE [board EXCEPT !.activeId = "", !.origin = "",
                                  !.patches = @ \o sent,
                                  !.drop = [taskId |-> board.activeId, from |-> board.origin,
                                            to |-> newStatus, sent |-> sent]]
    /\ UNCHANGED <<authVars, tenantVars, edgeVars, health, hooks>>

\* onSuccess: the queries are invalidated; the local list stays
PatchSucceeds ==
    /\ board.settled < Len(board.patches)
    /\ board' = [board EXCEPT !.settled = @ + 1]
    /\ UNCHANGED <<authVars, tenantVars, edgeVars, health, hooks>>

\* onError: setTasks(initialTasks)
PatchFails ==
    /\ board.settled < Len(board.patches)
    /\ board' = [board EXCEPT !.settled = @ + 1, !.tasks = initialTasks]
    /\ UNCHANGED <<authVars, tenantVars, edgeVars, health, hooks>>

BoardInit ==
    /\ AuthIdle
    /\ TenantTablesInit
    /\ http = NoHttp
    /\ limiter = LimiterStart
    /\ io = IoStart
    /\ health = HealthStart("none")
    /\ board = BoardStart
    /\ hooks = NoHooks

BoardNext ==
    \/ \E id \in TaskIds : DragStart(id)
    \/ \E overId \in Overs : DragOver(overId)
    \/ \E overId \in Overs : DragEnd(overId)
    \/ PatchSucceeds
    \/ PatchFails

BoardSpec == BoardInit /\ [][BoardNext]_vars

(***************************************************************************)
(* hooks/useRealtime over lib/socket: the one socket of the client and the *)
(* components that use useRealtimeProject or useRealtimeTask.  A mounted   *)
(* component is kept with the room its effect named and the socket the     *)
(* effect ran with ("" when getSocket() gave null or no id was passed).    *)
(* What the client emits reaches the server in the order it was emitted;   *)
(* the model runs the server's handler with the emit.                      *)
(***************************************************************************)
Components == {"c1", "c2", "c3"}

\* the id of the connection that io(WS_URL) opens
ClientSocket == "socket-1"

\* projectId / taskId passed to the hook, "" for undefined
HookIds == [project |-> {""} \cup DOMAIN Owner.project, task |-> {""} \cup DOMAIN Owner.task]

Hook(component, kind, id, socket) ==
    [component |-> component, kind |-> kind, id |-> id, socket |-> socket]

\* initSocket: without a socket one is opened with the token; the server's
\* io.use verifies the token and gives the socket its userId
InitSocket(token) ==
    /\ hooks.socket = ""
    /\ verifyAccessToken(token, now) = "ok"
    /\ hooks' = [hooks EXCEPT !.socket = ClientSocket]
    /\ io' = [io EXCEPT !.sockets[ClientSocket] = token.userId]
    /\ UNCHANGED <<authVars, tenantVars, limiter, health, board>>

\* a component using the hook mounts: the effect emits the join of its room
\* when there is a socket and an id
Mount(component, kind, id) ==
    /\ \A m \in hooks.mounted : m.component # component
    /\ LET socket == IF id = "" THEN "" ELSE hooks.socket
       IN  /\ hooks' = [hooks EXCEPT !.mounted = @ \cup {Hook(component, kind, id, socket)}]
           /\ io' = IF socket = "" THEN io
                    ELSE IF kind = "project" THEN onJoinProject(socket, id)
                    ELSE onJoinTask(socket, id)
    /\ UNCHANGED <<authVars, tenantVars, limiter, health, board>>

\* the component unmounts: the cleanup of its effect emits the leave
Unmount(component) ==
    /\ \E m \in hooks.mounted :
         /\ m.component = component
         /\ hooks' = [hooks EXCEPT !.mounted = @ \ {m}]
         /\ io' = IF m.socket = "" THEN io
                  ELSE IF m.kind = "project" THEN onLeaveProject(m.socket, m.id)
                  ELSE onLeaveTask(m.socket, m.id)
    /\ UNCHANGED <<authVars, tenantVars, limiter, health, board>>

HooksNext ==
    \/ InitSocket(generateAccessToken(FixtureUser.id, "", "", 0))
    \/ \E c \in Components, kind \in {"project", "task"} :
         \E id \in HookIds[kind] : Mount(c, kind, id)
    \/ \E c \in Components : Unmount(c)

HooksSpec == TenantInit /\ [][HooksNext]_vars

Lowest(p) == \A q \in Procs : q < p => pc[q] # "idle"

\* token strings a client can present: those in the store, those logged out
\* earlier, and one that was never issued
Presentable == {r.token : r \in tokens} \cup loggedOut \cup {Raw("invalid-token")}

\* time passes: a second, or the stored lifetime of a refresh-token row
WEEK == StoredTokenDays * DAY

Tick ==
    /\ \E d \in {1, WEEK} :
         /\ d = 1 => (now % WEEK) < MaxSecs
         /\ d = WEEK => (now \div WEEK) < MaxWeeks
         /\ now' = now + d
    /\ UNCHANGED <<users, tokens, refreshExpiresIn, pc, req, last, loggedOut, tenantVars, edgeVars, uiVars>>

Next ==
    \/ \E p \in Procs, e \in Emails, w \in Passwords : Lowest(p) /\ RegisterFind(p, e, w)
    \/ \E p \in Procs : RegisterCreate(p)
    \/ \E p \in Procs : RegisterToken(p)
    \/ \E p \in Procs, e \in Emails, w \in Passwords : Lowest(p) /\ LoginFind(p, e, w)
    \/ \E p \in Procs : LoginToken(p)
    \/ \E p \in Procs, t \in Presentable : Lowest(p) /\ Refresh(p, t)
    \/ \E p \in Procs, t \in Presentable : Lowest(p) /\ Logout(p, t)
    \/ Tick

Spec == Init /\ [][Next]_vars

(***************************************************************************)
(* The same operations when the database cannot be reached: the first      *)
(* prisma call of the operation throws.                                    *)
(***************************************************************************)
StorageUnreachable ==
    [type |-> "PrismaClientInitializationError", message |-> "", statusCode |-> 0, code |-> "P1001"]

\* register: user.findUnique throws, the controller hands the error to next
RegisterUnreachable(p, email, password) ==
    /\ pc[p] = "idle"
    /\ UNCHANGED <<users, tokens, now, refreshExpiresIn, loggedOut, tenantVars, edgeVars, uiVars>>
    /\ Finish(p, Request("register", email, password, NoToken), "unreachable",
              errorHandler(StorageUnreachable))

\* login: user.findUnique throws, the controller hands the error to next
LoginUnreachable(p, email, password) ==
    /\ pc[p] = "idle"
    /\ UNCHANGED <<users, tokens, now, refreshExpiresIn, loggedOut, tenantVars, edgeVars, uiVars>>
    /\ Finish(p, Request("login", email, password, NoToken), "unreachable",
              errorHandler(StorageUnreachable))

\* refreshAccessToken: the token verifies, refreshToken.findUnique throws
\* inside the try block
RefreshUnreachable(p, refreshToken) ==
    /\ pc[p] = "idle"
    /\ verifyRefreshToken(refreshToken, now) = "ok"
    /\ UNCHANGED <<users, tokens, now, refreshExpiresIn, loggedOut, tenantVars, edgeVars, uiVars>>
    /\ Finish(p, Request("refresh", "", "", refreshToken), "unreachable",
              errorHandler(refreshCatch(StorageUnreachable)))

\* logout: refreshToken.deleteMany throws
LogoutUnreachable(p, refreshToken) ==
    /\ pc[p] = "idle"
    /\ UNCHANGED <<users, tokens, now, refreshExpiresIn, loggedOut, tenantVars, edgeVars, uiVars>>
    /\ Finish(p, Request("logout", "", "", refreshToken), "unreachable",
              errorHandler(StorageUnreachable))

\* GET /auth/me: authenticate accepts the token, user.findUnique throws
GetCurrentUserUnreachable(p, accessToken) ==
    /\ pc[p] = "idle"
    /\ verifyAccessToken(accessToken, now) = "ok"
    /\ UNCHANGED <<users, tokens, now, refreshExpiresIn, loggedOut, tenantVars, edgeVars, uiVars>>
    /\ Finish(p, Request("me", "", "", accessToken), "unreachable",
              errorHandler(StorageUnreachable))

FaultNext ==
    \/ Next
    \/ \E p \in Procs, e \in Emails, w \in Passwords : Lowest(p) /\ RegisterUnreachable(p, e, w)
    \/ \E p \in Procs, e \in Emails, w \in Passwords : Lowest(p) /\ LoginUnreachable(p, e, w)
    \/ \E p \in Procs, t \in Presentable : Lowest(p) /\ RefreshUnreachable(p, t)
    \/ \E p \in Procs, t \in Presentable : Lowest(p) /\ LogoutUnreachable(p, t)
    \/ \E p \in Procs, u \in {x.id : x \in users} :
         Lowest(p) /\ GetCurrentUserUnreachable(p, generateAccessToken(u, "", "", now))

FaultSpec == Init /\ [][FaultNext]_vars

(***************************************************************************)
(* POST /auth/logout is mounted without validation: the body may carry no  *)
(* refreshToken, and the service is called with undefined.                 *)
(***************************************************************************)
LogoutNext ==
    \/ Next
    \/ \E p \in Procs : Lowest(p) /\ Logout(p, Undefined)

LogoutSpec == Init /\ [][LogoutNext]_vars

(***************************************************************************)
(* Sessions while memberships change: login, refresh, and the membership   *)
(* rows of the fixture user being created, changed and removed.            *)
(***************************************************************************)
MembershipNext ==
    \/ \E p \in Procs : Lowest(p) /\ LoginFind(p, FixtureUser.email, "Password123!")
    \/ \E p \in Procs : LoginToken(p)
    \/ \E p \in Procs, t \in Presentable : Lowest(p) /\ Refresh(p, t)
    \/ \E o \in Orgs, r \in {"ADMIN", "GUEST"} : MemberPut(o, FixtureUser.id, r)
    \/ \E o \in Orgs : MemberDelete(o, FixtureUser.id)

MembershipSpec == TenantInit /\ [][MembershipNext]_vars

(***************************************************************************)
(* Properties                                                              *)
(***************************************************************************)
InvalidCredentialsResponse == errorResponse("Invalid credentials", 401, "INVALID_CREDENTIALS")

LoggedOutResponse == successResponse(200, "Logged out successfully", NoToken, NoToken)

\* C1: no two User rows share an email, and a register call whose email
\* already belongs to a user is answered 409 USER_EXISTS and has inserted no
\* User row and no RefreshToken row.
C1_DuplicateEmailRejected ==
    /\ \A u, v \in users : u.email = v.email => u = v
    /\ (last.op = "register" /\ last.found) =>
         /\ last.resp = errorResponse("User with this email already exists", 409, "USER_EXISTS")
         /\ last.nUsers = 0
         /\ last.nTokens = 0

C1_Witness ==
    /\ last.op = "register"
    /\ last.found
    /\ last.resp.status = 409

\* C2: whatever the interleaving of two register calls, an email has at most
\* one User row; a call that passed the findUnique check and inserted no User
\* row lost on the unique index: it is answered 409 and inserted no token row.
C2_ConcurrentRegisterOneWinner ==
    /\ \A e \in Emails : Cardinality(userFindUnique(e)) <= 1
    /\ (last.op = "register" /\ ~last.found /\ last.nUsers = 0) =>
         /\ last.resp.status = 409
         /\ last.resp.code = "DUPLICATE_ENTRY"
         /\ last.resp.accessToken = NoToken
         /\ last.resp.refreshToken = NoToken
         /\ last.nTokens = 0

C2_Witness ==
    /\ last.op = "register"
    /\ ~last.found
    /\ last.nUsers = 0
    /\ last.resp.status = 409
    /\ \E u \in users : u # FixtureUser

\* C3: once logout(t) has removed t's row, every later refreshAccessToken(t)
\* is answered 401 TOKEN_INVALID and carries no access token.
C3_LoggedOutTokenRejected ==
    [][\A p \in Procs, t \in loggedOut :
         Refresh(p, t) =>
           /\ last'.resp.status = 401
           /\ last'.resp.code = "TOKEN_INVALID"
           /\ last'.resp.accessToken = NoToken]_vars

\* C4: refreshAccessToken of a token whose signature verifies and whose stored
\* row has an expiresAt in the past is answered with the error TOKEN_EXPIRED.
C4_StoredExpiryIsTokenExpired ==
    [][\A p \in Procs, t \in Presentable :
         (/\ verifyRefreshToken(t, now) = "ok"
          /\ \E r \in refreshTokenFindUnique(t) : r.expiresAt < now
          /\ Refresh(p, t)) =>
           /\ last'.resp.status = 401
           /\ last'.resp.code = "TOKEN_EXPIRED"]_vars

\* C5: refreshAccessToken(t) succeeds exactly when t has a row in the store
\* whose expiresAt is in the future.
C5_RefreshIffStoredAndUnexpired ==
    [][\A p \in Procs, t \in Presentable :
         Refresh(p, t) =>
           (last'.resp.status = 200
              <=> \E r \in refreshTokenFindUnique(t) : r.expiresAt > now)]_vars

\* C6: a successful refreshAccessToken(t) returns a refresh token other than
\* t and leaves no row for t in the store.
C6_RefreshRotates ==
    [][\A p \in Procs, t \in Presentable :
         (Refresh(p, t) /\ last'.resp.status = 200) =>
           /\ last'.resp.refreshToken # t
           /\ {r \in tokens' : r.token = t} = {}]_vars

C8_RoundTrip ==
    [][/\ \A p \in Procs, e \in Emails, w \in Passwords :
            (/\ \E u \in userFindUnique(e) : u # FixtureUser /\ ~comparePassword(w, u.password)
             /\ LoginFind(p, e, w)) => last'.resp = InvalidCredentialsResponse
       /\ \A p \in Procs :
            (req[p].userId # FixtureUser.id /\ LoginToken(p)) =>
              /\ last'.resp.status = 200
              /\ last'.resp.accessToken # NoToken
              /\ last'.resp.refreshToken # NoToken]_vars

\* C9: every login that passed the credential checks is answered 200 and
\* adds one row of its own, holding the refresh token it returns.
C9_EveryLoginOwnRow ==
    [][\A p \in Procs :
         LoginToken(p) =>
           /\ last'.resp.status = 200
           /\ Cardinality(tokens') = Cardinality(tokens) + 1
           /\ \E r \in tokens' \ tokens : r.token = last'.resp.refreshToken]_vars

\* C10: logout(t) is answered with the success acknowledgement whether or not
\* t had a row, and leaves no row matching t, so that a second logout(t)
\* deletes zero rows and leaves the store as the first one left it.
C10_LogoutIdempotent ==
    last.op = "logout" =>
      /\ last.resp = LoggedOutResponse
      /\ last.left = 0
      /\ last.nTokens = 0 - last.rows
      /\ last.nUsers = 0

C10_Witness ==
    /\ last.op = "logout"
    /\ last.rows = 0
    /\ last.resp.status = 200
    /\ tokens # {}

\* C11: after a logout that is answered with success, no RefreshToken row of
\* the user who owned the presented token remains in the store.
C11_LogoutClearsUser ==
    [][\A p \in Procs, t \in Presentable :
         (Logout(p, t) /\ last'.resp.status = 200) =>
           \A r \in refreshTokenFindUnique(t) :
             {o \in tokens' : o.userId = r.userId} = {}]_vars

(***************************************************************************)
(* Properties of the middleware chain                                      *)
(***************************************************************************)
Range(f) == {f[i] : i \in DOMAIN f}

\* C12: a request whose access token has expired is answered with the code
\* TOKEN_EXPIRED, and one whose token does not verify with TOKEN_INVALID.
C12_ExpiredAndInvalidDistinct ==
    /\ http.verified = "TokenExpiredError" =>
         \A i \in DOMAIN http.sent : http.sent[i].code = "TOKEN_EXPIRED"
    /\ http.verified = "JsonWebTokenError" =>
         \A i \in DOMAIN http.sent : http.sent[i].code = "TOKEN_INVALID"

\* C13: when tenantContext ran for a request that names an organization in
\* which its user has no membership row, the one response is 403
\* ORG_ACCESS_DENIED, organizationId and orgRole are not set and next was not
\* called, so nothing after tenantContext ran.
C13_TenantIsolation ==
    ("tenantContext" \in Range(http.ran) /\ http.user # NoToken
       /\ http.orgId # "" /\ ~http.stored.row) =>
      /\ http.sent = <<errorResponse("Access denied to this organization", 403, "ORG_ACCESS_DENIED")>>
      /\ http.organizationId = ""
      /\ http.orgRole = ""
      /\ "tenantContext" \notin Range(http.nexts)
      /\ http.ran = <<"authenticate", "tenantContext">>

C13_Witness ==
    /\ "tenantContext" \in Range(http.ran)
    /\ http.orgId # ""
    /\ ~http.stored.row
    /\ http.user.organizationId = http.orgId
    /\ http.user.role = "OWNER"
    /\ \E m \in members : m.userId = http.user.userId /\ m.organizationId # http.orgId
    /\ \E m \in members : m.userId # http.user.userId /\ m.organizationId = http.orgId

\* C14: when tenantContext ran for a member of an organization whose
\* subscriptionStatus was not ACTIVE, the one response is 403 ORG_INACTIVE and
\* neither requirePermission nor the handler ran.
C14_InactiveOrgBlocksMembers ==
    ("tenantContext" \in Range(http.ran) /\ http.stored.row
       /\ http.stored.subscriptionStatus # "ACTIVE") =>
      /\ http.sent = <<errorResponse("Organization subscription is not active", 403, "ORG_INACTIVE")>>
      /\ http.orgRole = ""
      /\ "requirePermission" \notin Range(http.ran)
      /\ "handler" \notin Range(http.ran)

C14_Witness ==
    /\ "tenantContext" \in Range(http.ran)
    /\ http.stored.row
    /\ http.stored.subscriptionStatus = "PAST_DUE"
    /\ http.stored.role \in allowedRoles(http.route.permission)
    /\ http.sent # <<>>

\* C15: requirePermission(action) calls next exactly when the role is listed
\* for the action in the permission table and otherwise answers 403
\* PERMISSION_DENIED; GUEST is listed for project:read and not for
\* project:update.
C15_PermissionTable ==
    /\ "GUEST" \in permissions["project:read"]
    /\ "GUEST" \notin permissions["project:update"]
    /\ ("requirePermission" \in Range(http.ran) /\ http.orgRole \in OrgRoles) =>
         /\ "requirePermission" \in Range(http.nexts)
              <=> http.orgRole \in permissions[http.route.permission]
         /\ http.orgRole \notin permissions[http.route.permission] =>
              /\ http.sent = <<errorResponse("Insufficient permissions", 403, "PERMISSION_DENIED")>>
              /\ "handler" \notin Range(http.ran)

C15_Witness ==
    /\ "requirePermission" \in Range(http.ran)
    /\ http.orgRole = "GUEST"
    /\ http.route.permission = "project:update"
    /\ http.sent # <<>>

\* C16: what has run of a request is an initial part of its route's chain
\* followed by the handler; the handler has run only if every middleware of
\* the chain called next, a response sent by a middleware means the handler
\* has not run, and a request has no response while in flight and exactly one
\* when nothing is left to run.
C16_GateBeforeHandler ==
    /\ http.ran = SubSeq(http.route.chain \o <<"handler">>, 1, Len(http.ran))
    /\ "handler" \in Range(http.ran) => http.nexts = http.route.chain
    /\ (\E i \in DOMAIN http.senders : http.senders[i] # "handler") =>
         "handler" \notin Range(http.ran)
    /\ http.at > 0 => http.sent = <<>>
    /\ (http.at = 0 /\ http.route # NoRoute) => Len(http.sent) = 1

C16_Witness ==
    /\ http.route.permission = "project:update"
    /\ http.ran = <<"authenticate", "tenantContext", "requirePermission", "handler">>
    /\ Len(http.sent) = 1
    /\ http.sent[1].status = 200

\* C19: a GET /auth/me request without an Authorization header of the form
\* "Bearer ..." is answered 401 by authenticate; for a request whose token was
\* not verified the handler getCurrentUser has not run and the store was not
\* accessed.
C19_MeRequiresVerifiedToken ==
    http.route.path = "/auth/me" =>
      /\ ("authenticate" \in Range(http.ran) /\ http.authorization.scheme # "Bearer") =>
           /\ http.sent = <<errorResponse("No authorization token provided", 401, "UNAUTHORIZED")>>
           /\ http.senders = <<"authenticate">>
      /\ http.verified # "ok" =>
           /\ "handler" \notin Range(http.ran)
           /\ http.reads = 0

C19_Witness ==
    /\ http.route.path = "/auth/me"
    /\ http.authorization.scheme = "Basic"
    /\ http.sent # <<>>

\* C17: within one window, a login or register request of a client that had
\* already made AuthMax or more failed attempts when it arrived (a fortiori
\* more than AuthMax) is answered 429 AUTH_RATE_LIMIT whatever its handler
\* would have answered, and never reaches the handler; the store counts, for
\* each client, its failed attempts of the window and its requests still in
\* flight, so that an attempt that succeeded holds no count.
InFlight(client) ==
    {s \in Slots : /\ limiter.slot[s].client = client
                   /\ limiter.slot[s].stage = "handler"
                   /\ limiter.slot[s].op \in AuthAttempts}

C17_AuthRateLimit ==
    /\ \A r \in {limiter.slot[s] : s \in Slots} \cup {limiter.answered} :
         (r.op \in AuthAttempts /\ r.exhausted) =>
           /\ r.stage = "done"
           /\ r.status = 429
           /\ r.code = "AUTH_RATE_LIMIT"
    /\ \A client \in Clients :
         limiter.hits[client] = limiter.failed[client] + Cardinality(InFlight(client))

C17_Witness ==
    /\ limiter.answered.op \in AuthAttempts
    /\ limiter.answered.exhausted
    /\ limiter.failed[limiter.answered.client] > AuthMax + 1
    /\ limiter.answered.outcome < 400
    /\ limiter.answered.status = 429

\* C18: an operation during which the storage was unreachable is answered
\* with a 5xx status; every other error answer of register, login,
\* refreshAccessToken, logout and getCurrentUser is a 4xx with its code.
C18_UnexpectedIs5xx ==
    /\ last.at = "unreachable" => last.resp.status >= 500
    /\ (last.at # "unreachable" /\ last.resp.status >= 400) =>
         /\ last.resp.status < 500
         /\ last.resp.code # ""

\* C20: every event of a room project:{P} or task:{T} is delivered only to
\* sockets whose user is then a member of the organization owning P or T, and
\* no socket sits in such a room that its user joined without being a member.
C20_RoomIsolation ==
    /\ \A d \in io.delivered : d.member
    /\ \A x \in io.rooms : x.member

\* C21: a socket that disconnects while seated in a project room is announced
\* to the others of the room with user:left, and user:left is never sent for
\* a socket that had no seat in the project room.
C21_PresenceConsistent ==
    [][/\ \A s \in SocketIds :
            Disconnect(s) =>
              \A x \in {y \in io.rooms : y.socket = s /\ y.room[1] = "project"} :
                \A o \in {y \in io.rooms : y.room = x.room /\ y.socket # s} :
                  \E d \in io'.delivered :
                    d.event = "user:left" /\ d.socket = o.socket /\ d.room = x.room
       /\ \A s \in SocketIds, p \in DOMAIN Owner.project :
            (LeaveProject(s, p) /\ Seated(s, RoomOf("project", p)) = {}) =>
              \A d \in io'.delivered : d.event # "user:left"]_vars

\* C22: whenever requirePermission lets a role pass for a permission, every
\* higher role of Owner > Admin > Member > Guest is allowed that permission
\* too, and OWNER always passes; requireOwner and requireAdmin admit every
\* role above one they admit.
UpwardClosed(roles) ==
    \A r \in roles, higher \in OrgRoles : Rank[higher] > Rank[r] => higher \in roles

C22_RoleHierarchy ==
    /\ UpwardClosed(requireOwner)
    /\ UpwardClosed(requireAdmin)
    /\ ("requirePermission" \in Range(http.ran) /\ http.orgRole \in OrgRoles) =>
         LET passed == "requirePermission" \in Range(http.nexts)
         IN  /\ passed => UpwardClosed(allowedRoles(http.route.permission) \cup {http.orgRole})
             /\ http.orgRole = "OWNER" => passed

C22_Witness ==
    /\ "requirePermission" \in Range(http.nexts)
    /\ http.orgRole = "MEMBER"
    /\ http.route.permission = "task:delete"

\* C23: every answer to GET /health is 200 with a success body whose status
\* is healthy (or ok), whatever the state of the database and of Redis.
C23_HealthAlways200 ==
    health.last.path = "/health" =>
      /\ health.last.status = 200
      /\ health.last.success
      /\ health.last.data \in {"healthy", "ok"}

C25_LogoutOnlyMatching ==
    [][\A p \in Procs, t \in Presentable \cup {Undefined} :
         Logout(p, t) => \A r \in tokens : r.token # t => r \in tokens']_vars

\* C26: the refresh token of a successful register or login is, when the call
\* returns, held by exactly one row, bound to the user of the token, expiring
\* StoredTokenDays days after the token was issued, and a refreshAccessToken
\* made at that moment finds the token valid and the row unexpired; a register
\* or login answered with an error has inserted no RefreshToken row.
C26_IssuedTokenStored ==
    last.op \in {"register", "login"} =>
      LET t == last.resp.refreshToken
      IN  /\ last.resp.status \in {200, 201} =>
               /\ last.stored = {TokenRow(t, t.userId, t.iat + StoredTokenDays * DAY)}
               /\ last.nTokens = 1
               /\ verifyRefreshToken(t, t.iat) = "ok"
               /\ \A r \in last.stored : ~(r.expiresAt < t.iat)
          /\ last.resp.status \notin {200, 201} =>
               /\ last.nTokens = 0
               /\ last.stored = {}

C26_Witness ==
    /\ last.op = "login"
    /\ last.resp.status = 200
    /\ last.stored # {}
    /\ last.nTokens = 1

\* C27: the access token of a successful refreshAccessToken carries no
\* organization and no role when its user has no membership at that moment,
\* and otherwise the organization and the role of one of the user's
\* memberships as stored at that moment.
C27_RefreshResolvesCurrentRole ==
    (last.op = "refresh" /\ last.resp.status = 200) =>
      LET t == last.resp.accessToken
          current == {m \in last.members : m.userId = t.userId}
      IN  /\ current = {} => (t.organizationId = "" /\ t.role = "")
          /\ current # {} =>
               \E m \in current : m.organizationId = t.organizationId /\ m.role = t.role

C27_Witness ==
    /\ last.op = "refresh"
    /\ last.resp.status = 200
    /\ last.resp.accessToken.organizationId = "org-2"
    /\ last.resp.accessToken.role = "GUEST"
    /\ OrgMemberRow("org-2", 1, "GUEST") \in last.members

\* C28: a request is gated by what table "OrganizationMember" holds when
\* tenantContext runs, whatever role its access token embeds: without a row
\* the answer is 403 ORG_ACCESS_DENIED; tenantContext calls next only with the
\* stored role as orgRole; requirePermission calls next exactly when the
\* stored role is listed for the route's permission, and the handler runs
\* only then.
C28_StoredRoleDecides ==
    ("tenantContext" \in Range(http.ran) /\ http.user # NoToken /\ http.orgId # "") =>
      /\ ~http.stored.row =>
           http.sent = <<errorResponse("Access denied to this organization", 403, "ORG_ACCESS_DENIED")>>
      /\ "tenantContext" \in Range(http.nexts) =>
           (http.stored.row /\ http.orgRole = http.stored.role)
      /\ "requirePermission" \in Range(http.ran) =>
           /\ "requirePermission" \in Range(http.nexts)
                <=> http.stored.role \in permissions[http.route.permission]
           /\ http.stored.role \notin permissions[http.route.permission] =>
                http.sent = <<errorResponse("Insufficient permissions", 403, "PERMISSION_DENIED")>>
      /\ "handler" \in Range(http.ran) =>
           http.stored.role \in permissions[http.route.permission]

\* a token that embeds OWNER of the organization, presented when the stored
\* role is GUEST, is denied by requirePermission
C28_Witness ==
    /\ http.user.organizationId = http.orgId
    /\ http.user.role = "OWNER"
    /\ http.stored.row
    /\ http.stored.role = "GUEST"
    /\ http.ran = <<"authenticate", "tenantContext", "requirePermission">>
    /\ http.sent = <<errorResponse("Insufficient permissions", 403, "PERMISSION_DENIED")>>

\* C29: a drop of a task on a column, or on a card of a column, other than
\* the one the task was in when the drag started sends exactly one PATCH for
\* that task with the new status, and a drop on its own column sends none.
C29_DropSendsOnePatch ==
    board.drop.taskId # "" =>
      IF board.drop.from # board.drop.to
        THEN board.drop.sent = <<Patch(board.drop.taskId, board.drop.to)>>
        ELSE board.drop.sent = <<>>

\* C30: the client's socket is in the server's room project:P (task:T) for
\* as long as a mounted component's useRealtimeProject(P) (useRealtimeTask(T))
\* has joined it.
C30_RoomKeptWhileSubscribed ==
    \A m \in hooks.mounted :
      m.socket # "" => Seated(m.socket, RoomOf(m.kind, m.id)) # {}

=============================================================================
